---- MODULE Spec2Model ----
(***************************************************************************)
(* Model of the unified metrics and churn-classification engine of the     *)
(* student dashboard (UnifiedDataProcessor).                               *)
(*                                                                         *)
(* Dates are timestamps counted in ticks, TicksPerDay ticks to a day; a    *)
(* Date that is undefined is NoDate.  A package / activity that is         *)
(* undefined is NoPackage / NoActivity, fees that are undefined are NoFee. *)
(* Arrays of strings that the code de-duplicates through Set are sets.     *)
(* An id is the sequence of its '-' separated segments.  A percentage is   *)
(* a record [nan, tenths]: the value of Math.round(x * 10) / 10 in tenths  *)
(* of a percent, or nan when the division was 0/0 or n/0.                  *)
(* The contact fields (name, email, phone) are left out.                   *)
(***************************************************************************)
EXTENDS Integers, Sequences, FiniteSets, TLC

VARIABLES students, renewalStudents, dateRange, now, last, hook

vars == <<students, renewalStudents, dateRange, now, last, hook>>

\* ------------------------------------------------------------------ bounds
MaxStudents == 2
MaxRenewals == 2
MaxFetches == 2
MaxRows == 2
TicksPerDay == 2
\* The calendar of the model: every month has DaysPerMonth days, day 0 is the
\* first day of month 0.
DaysPerMonth == 30

\* ------------------------------------------------------- program constants
GraceDays == 45

NoDate == 0 - 1
NoFee == 0 - 1
NoPackage == "undefined"
NoActivity == "undefined"

EnrollmentSources == {"FormResponses1", "OldFormResponses1", "RazorpayEnrollments"}
RenewalSources == {"Renewal", "HistoricalRenewal", "RazorpayRenewals"}

\* The packages of the model; those of LTVPackages contain the marker 'LTV'.
LTVPackages == {"Lifetime Access - LTV Package", "LTV"}
includesLTV(package) == package \in LTVPackages

\* --------------------------------------------------------------- date-fns
isAfter(a, b) == a > b
isBefore(a, b) == a < b
addDays(date, n) == date + n * TicksPerDay

\* new Date(d).setHours(0, 0, 0, 0) and setHours(23, 59, 59, 999)
startOfDay(date) == date - (date % TicksPerDay)
endOfDay(date) == startOfDay(date) + (TicksPerDay - 1)

Day(n) == n * TicksPerDay

\* The months of the calendar of the model.
monthOf(date) == date \div (DaysPerMonth * TicksPerDay)
startOfMonth(date) == monthOf(date) * DaysPerMonth * TicksPerDay
endOfMonth(date) == startOfMonth(date) + (DaysPerMonth * TicksPerDay - 1)
addMonths(date, n) == date + n * DaysPerMonth * TicksPerDay
subMonths(date, n) == date - n * DaysPerMonth * TicksPerDay
differenceInCalendarMonths(a, b) == monthOf(a) - monthOf(b)
isWithinInterval(date, start, end) == date >= start /\ date <= end

\* ---------------------------------------------------------------- helpers
Put(map, k, v) == [x \in (DOMAIN map) \cup {k} |-> IF x = k THEN v ELSE map[x]]

EmptyMap == [x \in {} |-> 0]

SetMax(S) == CHOOSE x \in S : \A y \in S : y <= x

\* student.fees || 0
feesOrZero(fees) == IF fees = NoFee THEN 0 ELSE fees

\* getBaseId: the id without its second segment when it has more than two
getBaseId(id) ==
  IF Len(id) > 2 THEN <<id[1]>> \o SubSeq(id, 3, Len(id)) ELSE id

\* Mutant: a renewal counts only strictly before the grace end.
hasValidRenewalBeforeGraceEnd(student) ==
  /\ student.renewalDates # {}
  /\ isAfter(SetMax(student.renewalDates), student.endDate)
  /\ isBefore(SetMax(student.renewalDates), addDays(student.endDate, GraceDays))

\* Mutant: any renewal counts, also one on or before the end date.
hasAnyRenewal(student) == student.renewalDates # {}

\* latestRenewal && isAfter(latestRenewal, student.endDate)
hasValidRenewal(student) ==
  /\ student.renewalDates # {}
  /\ isAfter(SetMax(student.renewalDates), student.endDate)

\* ------------------------------------------------------------------ merger
\* The Student that buildStudentMap makes of a renewal without a student
\* (unifiedDataProcessor.ts): { ...renewal, enrollmentDate, renewalDates,
\* activities: renewal.activities.split(','), endDate, package }.
\* renewal.activities is modelled by the set of its split(',') pieces,
\* already trimmed; the empty string splits to the one piece "".
synthesized(renewal) ==
  [id |-> renewal.id,
   activities |-> renewal.activities,
   activity |-> NoActivity,
   courseCategories |-> renewal.courseCategories,
   enrollmentDate |-> IF renewal.renewalDate # NoDate THEN renewal.renewalDate ELSE 0,
   endDate |-> renewal.endDate,
   enrolledEndDate |-> NoDate,
   renewalDates |-> IF renewal.renewalDate # NoDate THEN {renewal.renewalDate} ELSE {},
   fees |-> renewal.fees,
   enrolledFees |-> NoFee,
   package |-> renewal.package,
   source |-> renewal.source]

\* Mutant: the renewal's package replaces the student's, lifetime or not.
renewalIntoOverwritingPackage(existingStudent, renewal) ==
  [existingStudent EXCEPT
     !.endDate = IF /\ renewal.endDate # NoDate
                    /\ (@ = NoDate \/ isAfter(renewal.endDate, @))
                 THEN renewal.endDate ELSE @,
     !.package = renewal.package,
     !.enrollmentDate = IF /\ renewal.renewalDate # NoDate
                           /\ isBefore(renewal.renewalDate, @)
                        THEN renewal.renewalDate ELSE @,
     !.renewalDates = IF renewal.renewalDate # NoDate
                      THEN @ \cup {renewal.renewalDate} ELSE @]

\* The update of an existing student by a renewal, in the order of the code.
renewalInto(existingStudent, renewal) ==
  LET e1 == IF /\ renewal.endDate # NoDate
               /\ (existingStudent.endDate = NoDate
                   \/ isAfter(renewal.endDate, existingStudent.endDate))
            THEN [existingStudent EXCEPT !.endDate = renewal.endDate]
            ELSE existingStudent
      e2 == IF includesLTV(renewal.package)
            THEN [e1 EXCEPT !.package = renewal.package] ELSE e1
      e3 == IF /\ renewal.renewalDate # NoDate
               /\ isBefore(renewal.renewalDate, e2.enrollmentDate)
            THEN [e2 EXCEPT !.enrollmentDate = renewal.renewalDate] ELSE e2
  IN IF renewal.renewalDate # NoDate
     THEN [e3 EXCEPT !.renewalDates = @ \cup {renewal.renewalDate}] ELSE e3

\* First loop: the map holds, per id, the index of the student object kept
\* (the object itself, not a copy).
RECURSIVE keepLatest(_, _, _)
keepLatest(studs, i, map) ==
  IF i > Len(studs) THEN map
  ELSE LET student == studs[i]
           keep == \/ student.id \notin DOMAIN map
                   \/ isAfter(student.enrollmentDate,
                              studs[map[student.id]].enrollmentDate)
       IN keepLatest(studs, i + 1, IF keep THEN Put(map, student.id, i) ELSE map)

\* Mutant: a renewal without a student is dropped.
RECURSIVE addRenewalsDroppingUnmatched(_, _, _, _)
addRenewalsDroppingUnmatched(renewals, j, heap, map) ==
  IF j > Len(renewals) THEN [heap |-> heap, map |-> map]
  ELSE LET renewal == renewals[j] IN
       IF renewal.id \in DOMAIN map
       THEN addRenewalsDroppingUnmatched(renewals, j + 1,
              [heap EXCEPT ![map[renewal.id]] = renewalInto(@, renewal)], map)
       ELSE addRenewalsDroppingUnmatched(renewals, j + 1, heap, map)

\* Second loop: heap holds the objects, the input students first, then the
\* ones synthesized; an update of a mapped object is an update in place.
RECURSIVE addRenewals(_, _, _, _)
addRenewals(renewals, j, heap, map) ==
  IF j > Len(renewals) THEN [heap |-> heap, map |-> map]
  ELSE LET renewal == renewals[j] IN
       IF renewal.id \in DOMAIN map
       THEN addRenewals(renewals, j + 1,
              [heap EXCEPT ![map[renewal.id]] = renewalInto(@, renewal)], map)
       ELSE addRenewals(renewals, j + 1,
              Append(heap, synthesized(renewal)),
              Put(map, renewal.id, Len(heap) + 1))

\* buildStudentMap of unifiedDataProcessor.ts: [students, map], students being
\* the input array as the call leaves it.
buildStudentMap(studs, renewals) ==
  LET built == addRenewals(renewals, 1, studs, keepLatest(studs, 1, EmptyMap))
  IN [students |-> SubSeq(built.heap, 1, Len(studs)),
      map |-> [k \in DOMAIN built.map |-> built.heap[built.map[k]]]]

\* --- the buildStudentMap of the base-id revision (unnamed/part_012) ---
\* filter(a => a && a.trim())
nonEmpty(activities) == activities \ {""}

\* ...(student.activity ? [student.activity] : [])
activityField(student) ==
  IF student.activity \in {NoActivity, ""} THEN {} ELSE {student.activity}

laterDate(existing, incoming) ==
  IF incoming # NoDate /\ (existing = NoDate \/ isAfter(incoming, existing))
  THEN incoming ELSE existing

\* The first record of a base id: a copy, { ...student, activities }.
firstRecord(student) ==
  [student EXCEPT !.activities = nonEmpty(student.activities \cup activityField(student))]

\* A further enrollment record of the same base id merged into the copy.
enrollmentInto(existing, student) ==
  [existing EXCEPT
     !.activities = nonEmpty(existing.activities \cup student.activities
                             \cup activityField(student)),
     !.courseCategories = @ \cup student.courseCategories,
     !.endDate = laterDate(@, student.endDate),
     !.enrolledEndDate = laterDate(@, student.enrolledEndDate),
     !.renewalDates = @ \cup student.renewalDates,
     !.fees = feesOrZero(@) + feesOrZero(student.fees),
     !.enrolledFees = feesOrZero(@) + feesOrZero(student.enrolledFees),
     !.enrollmentDate = IF isBefore(student.enrollmentDate, @)
                        THEN student.enrollmentDate ELSE @,
     !.package = IF includesLTV(student.package) /\ ~includesLTV(@)
                 THEN student.package ELSE @]

\* A renewal merged into the copy of its base id.
renewalIntoBase(existingStudent, renewal) ==
  [existingStudent EXCEPT
     !.endDate = laterDate(@, renewal.endDate),
     !.package = IF includesLTV(renewal.package) THEN renewal.package ELSE @,
     !.renewalDates = IF renewal.renewalDate # NoDate
                      THEN @ \cup {renewal.renewalDate} ELSE @,
     !.courseCategories = @ \cup renewal.courseCategories,
     !.activities = @ \cup nonEmpty(renewal.activities),
     !.fees = feesOrZero(@) + renewal.fees]

RECURSIVE mergeEnrollments(_, _, _)
mergeEnrollments(studs, i, map) ==
  IF i > Len(studs) THEN map
  ELSE LET student == studs[i]
           baseId == getBaseId(student.id)
       IN mergeEnrollments(studs, i + 1,
            IF baseId \in DOMAIN map
            THEN [map EXCEPT ![baseId] = enrollmentInto(@, student)]
            ELSE Put(map, baseId, firstRecord(student)))

RECURSIVE mergeRenewals(_, _, _)
mergeRenewals(renewals, j, map) ==
  IF j > Len(renewals) THEN map
  ELSE LET renewal == renewals[j]
           baseId == getBaseId(renewal.id)
       IN mergeRenewals(renewals, j + 1,
            IF baseId \in DOMAIN map
            THEN [map EXCEPT ![baseId] = renewalIntoBase(@, renewal)]
            ELSE Put(map, baseId, synthesized(renewal)))

\* Every entry of the map is an object the call created: the input is left
\* as it was.
buildStudentMapBase(studs, renewals) ==
  [students |-> studs,
   map |-> mergeRenewals(renewals, 1, mergeEnrollments(studs, 1, EmptyMap))]

\* The two revisions of buildStudentMap the repository holds.
Revisions == {"unifiedDataProcessor", "part_012"}

buildStudentMapOf(revision, studs, renewals) ==
  IF revision = "part_012" THEN buildStudentMapBase(studs, renewals)
  ELSE buildStudentMap(studs, renewals)

\* mergeStudentRecords: a map of copies per base id; the input is not written.
enrollmentIntoMerged(existingStudent, student) ==
  [existingStudent EXCEPT
     !.activities = @ \cup student.activities,
     !.courseCategories = @ \cup student.courseCategories,
     !.endDate = laterDate(@, student.endDate),
     !.renewalDates = @ \cup student.renewalDates,
     !.fees = feesOrZero(@) + feesOrZero(student.fees),
     !.enrollmentDate = IF isAfter(student.enrollmentDate, @)
                        THEN student.enrollmentDate ELSE @]

RECURSIVE mergeLoop(_, _, _)
mergeLoop(studs, i, studentMap) ==
  IF i > Len(studs) THEN studentMap
  ELSE LET student == studs[i]
           baseId == getBaseId(student.id)
       IN mergeLoop(studs, i + 1,
            IF baseId \in DOMAIN studentMap
            THEN [studentMap EXCEPT ![baseId] = enrollmentIntoMerged(@, student)]
            ELSE Put(studentMap, baseId, student))

mergeStudentRecords(studs) == mergeLoop(studs, 1, EmptyMap)

\* -------------------------------------------------------------- classifier
\* The filter of getActiveStudentsAtDate on one merged student.
isActiveAt(student, date) ==
  LET isActiveNotExpired ==
        student.endDate # NoDate /\ isAfter(student.endDate, date)
      isInGracePeriod ==
        /\ student.endDate # NoDate
        /\ isAfter(date, student.endDate)
        /\ isBefore(date, addDays(student.endDate, GraceDays))
        /\ ~hasValidRenewal(student)
      hasLTV == student.package # NoPackage /\ includesLTV(student.package)
  IN isActiveNotExpired \/ isInGracePeriod \/ hasLTV

\* getActiveStudentsAtDate: the keys of the active students, the map they
\* were taken from and the input array as the call leaves it.
getActiveStudentsAtDate(revision, studs, renewals, date) ==
  LET built == buildStudentMapOf(revision, studs, renewals)
  IN [students |-> built.students,
      map |-> built.map,
      active |-> {k \in DOMAIN built.map : isActiveAt(built.map[k], date)}]

\* -------------------------------------------------------------- aggregator
Indices(seq) == 1 .. Len(seq)

inRange(date, startDate, endDate) == date >= startDate /\ date <= endDate

\* Math.round(x * 10) of x = thousandths / den * 100 / 1000, den > 0:
\* Math.round rounds a half towards +infinity.
roundTenths(thousandths, den) == (2 * thousandths + den) \div (2 * den)

\* Mutant: the division without its guard: 0 / 0 is NaN, n / 0 is Infinity.
percentageUnguarded(num, den) ==
  IF den = 0 THEN [nan |-> TRUE, tenths |-> 0]
  ELSE [nan |-> FALSE, tenths |-> roundTenths(num * 1000, den)]

\* den > 0 ? (num / den) * 100 : 0, rounded
percentage(num, den) ==
  IF den > 0 THEN [nan |-> FALSE, tenths |-> roundTenths(num * 1000, den)]
  ELSE [nan |-> FALSE, tenths |-> 0]

\* 100 - churnPercentage, rounded
retention(churned, den) ==
  IF den > 0
  THEN [nan |-> FALSE, tenths |-> roundTenths(1000 * den - 1000 * churned, den)]
  ELSE [nan |-> FALSE, tenths |-> 1000]

isEnrollmentSource(source) == source \in EnrollmentSources
isRenewalSource(source) == source \in RenewalSources

\* Mutant: the churn is dated at the grace end: the grace end is in the range.
isChurnedAtGraceEnd(student, startDate, endDate, current) ==
  /\ student.endDate # NoDate
  /\ isAfter(current, addDays(student.endDate, GraceDays))
  /\ ~hasValidRenewal(student)
  /\ addDays(student.endDate, GraceDays) >= startDate
  /\ addDays(student.endDate, GraceDays) <= endDate

\* The churn filter of calculateUnifiedMetrics, getChurnedStudents and
\* getCourseCategoryChurnRates on one student.
isChurned(student, startDate, endDate, current) ==
  /\ student.endDate # NoDate
  /\ isAfter(current, addDays(student.endDate, GraceDays))
  /\ ~hasValidRenewal(student)
  /\ student.endDate >= startDate
  /\ student.endDate <= endDate

\* hasRenewal of the in-grace filter: some renewal date <= grace end.
hasRenewal(student) ==
  \E renewalDate \in student.renewalDates :
     \/ isBefore(renewalDate, addDays(student.endDate, GraceDays))
     \/ renewalDate = addDays(student.endDate, GraceDays)

isInGrace(student, startDate, endDate, current) ==
  /\ student.endDate # NoDate
  /\ isAfter(current, student.endDate)
  /\ isBefore(current, addDays(student.endDate, GraceDays))
  /\ ~hasRenewal(student)
  /\ student.endDate >= startDate
  /\ student.endDate <= endDate

isNewEnrollment(student, startDate, endDate) ==
  /\ inRange(student.enrollmentDate, startDate, endDate)
  /\ isEnrollmentSource(student.source)

\* Mutant: a renewal counts from the start of the range on, without end.
isRenewalAfterStart(renewal, startDate, endDate) ==
  /\ renewal.renewalDate # NoDate
  /\ renewal.renewalDate >= startDate
  /\ isRenewalSource(renewal.source)

isRenewalInRange(renewal, startDate, endDate) ==
  /\ renewal.renewalDate # NoDate
  /\ inRange(renewal.renewalDate, startDate, endDate)
  /\ isRenewalSource(renewal.source)

\* studentActivityMap: per id of an enrollment in range, its activities
activitiesOfId(studs, enrolled, id) ==
  UNION {nonEmpty(studs[i].activities) \cup activityField(studs[i]) :
           i \in {x \in enrolled : studs[x].id = id}}

RECURSIVE SumFees(_, _)
SumFees(studs, I) ==
  IF I = {} THEN 0
  ELSE LET i == CHOOSE x \in I : TRUE
       IN feesOrZero(studs[i].fees) + SumFees(studs, I \ {i})

\* calculateUnifiedMetrics: the UnifiedMetrics it returns (metrics), the
\* arrays it filtered (as index sets) and the students array as it leaves it:
\* the active-at-start count comes last, from getActiveStudentsAtDate.
calculateUnifiedMetrics(revision, studs, renewals, range, current) ==
  LET startDate == startOfDay(range.startDate)
      endDate == endOfDay(range.endDate)
      enrolled == {i \in Indices(studs) : isNewEnrollment(studs[i], startDate, endDate)}
      newEnrollments == Cardinality(enrolled)
      totalRenewals ==
        Cardinality({j \in Indices(renewals) :
                       isRenewalInRange(renewals[j], startDate, endDate)})
      eligibleEnrollment ==
        {i \in Indices(studs) :
           /\ studs[i].enrolledEndDate # NoDate
           /\ inRange(studs[i].enrolledEndDate, startDate, endDate)}
      eligibleRenewal ==
        {j \in Indices(renewals) :
           /\ renewals[j].endDate # NoDate
           /\ inRange(renewals[j].endDate, startDate, endDate)}
      eligibleRenewals == Cardinality(eligibleEnrollment) + Cardinality(eligibleRenewal)
      churnedStudents ==
        {i \in Indices(studs) : isChurned(studs[i], startDate, endDate, current)}
      inGraceStudents ==
        {i \in Indices(studs) : isInGrace(studs[i], startDate, endDate, current)}
      multiActivityStudents ==
        Cardinality({id \in {studs[i].id : i \in enrolled} :
                       Cardinality(activitiesOfId(studs, enrolled, id)) > 1})
      startOfPeriodStudents ==
        getActiveStudentsAtDate(revision, studs, renewals, startDate)
      startOfPeriodCount == Cardinality(startOfPeriodStudents.active)
      churnedCount == Cardinality(churnedStudents)
      endOfPeriodCount == startOfPeriodCount + newEnrollments - churnedCount
      studentsInRange ==
        {i \in Indices(studs) : inRange(studs[i].enrollmentDate, startDate, endDate)}
  IN [metrics |->
        [newEnrollments |-> newEnrollments,
         eligibleStudents |-> eligibleRenewals,
         renewedStudents |-> totalRenewals,
         churnedStudents |-> churnedCount,
         inGraceStudents |-> Cardinality(inGraceStudents),
         multiActivityStudents |-> multiActivityStudents,
         renewalPercentage |-> percentage(totalRenewals, eligibleRenewals),
         churnPercentage |-> percentage(churnedCount, startOfPeriodCount),
         retentionPercentage |-> retention(churnedCount, startOfPeriodCount),
         netGrowthPercentage |->
           percentage(endOfPeriodCount - startOfPeriodCount, startOfPeriodCount),
         lifetimeValue |-> SumFees(studs, studentsInRange)],
      churned |-> churnedStudents,
      inGrace |-> inGraceStudents,
      eligible |-> eligibleEnrollment,
      startOfPeriodCount |-> startOfPeriodCount,
      students |-> startOfPeriodStudents.students]

\* getChurnedStudents: the indices of the students it returns
getChurnedStudents(studs, range, current) ==
  {i \in Indices(studs) :
     isChurned(studs[i], startOfDay(range.startDate), endOfDay(range.endDate), current)}

\* getInGraceStudents: the indices of the students it returns
getInGraceStudents(studs, range, current) ==
  {i \in Indices(studs) :
     isInGrace(studs[i], startOfDay(range.startDate), endOfDay(range.endDate), current)}

\* getNewEnrollments: the indices of the students it returns
getNewEnrollments(studs, range) ==
  {i \in Indices(studs) :
     isNewEnrollment(studs[i], startOfDay(range.startDate), endOfDay(range.endDate))}

\* getEligibleStudents: the indices of the enrollments and of the renewals
\* whose records it returns, the ones after the others
getEligibleStudents(studs, renewals, range) ==
  [enrollments |->
     {i \in Indices(studs) :
        /\ studs[i].enrolledEndDate # NoDate
        /\ inRange(studs[i].enrolledEndDate,
                   startOfDay(range.startDate), endOfDay(range.endDate))},
   renewals |->
     {j \in Indices(renewals) :
        /\ renewals[j].endDate # NoDate
        /\ inRange(renewals[j].endDate,
                   startOfDay(range.startDate), endOfDay(range.endDate))}]

\* getRenewedStudents: the indices of the renewal records it returns
getRenewedStudents(renewals, range) ==
  {j \in Indices(renewals) :
     isRenewalInRange(renewals[j], startOfDay(range.startDate), endOfDay(range.endDate))}

\* startOfMonthStudents of calculateMonthlyTrends on one student.
isActiveAtMonthStart(student, prevMonthEnd) ==
  /\ student.endDate # NoDate
  /\ student.enrollmentDate <= prevMonthEnd
  /\ student.endDate > prevMonthEnd

\* One MonthlyMetrics of calculateMonthlyTrends: the bucket of the month that
\* starts at monthStart (month, the formatted label, is left out).
monthlyMetrics(studs, renewals, monthStart, current) ==
  LET monthEnd == endOfMonth(monthStart)
      prevMonthEnd == endOfMonth(subMonths(monthStart, 1))
      startCount ==
        Cardinality({i \in Indices(studs) : isActiveAtMonthStart(studs[i], prevMonthEnd)})
      joinedCount ==
        Cardinality({i \in Indices(studs) :
                       isWithinInterval(studs[i].enrollmentDate, monthStart, monthEnd)})
      renewalCount ==
        Cardinality({j \in Indices(renewals) :
                       isRenewalInRange(renewals[j], monthStart, monthEnd)})
      droppedCount ==
        Cardinality({i \in Indices(studs) :
                       isChurned(studs[i], monthStart, monthEnd, current)})
      endCount == startCount + joinedCount - droppedCount
      eligibleForRenewal ==
        Cardinality({i \in Indices(studs) :
                       /\ studs[i].enrolledEndDate # NoDate
                       /\ isWithinInterval(studs[i].enrolledEndDate, monthStart, monthEnd)})
        + Cardinality({j \in Indices(renewals) :
                         /\ renewals[j].endDate # NoDate
                         /\ isWithinInterval(renewals[j].endDate, monthStart, monthEnd)})
  IN [date |-> monthStart,
      startOfMonth |-> startCount,
      newEnrollments |-> joinedCount,
      renewals |-> renewalCount,
      dropped |-> droppedCount,
      endOfMonth |-> endCount,
      churnRate |-> percentage(droppedCount, startCount),
      retentionRate |-> retention(droppedCount, startCount),
      netGrowthRate |-> percentage(endCount - startCount, startCount),
      renewalRate |-> percentage(renewalCount, eligibleForRenewal)]

\* calculateMonthlyTrends: one MonthlyMetrics per calendar month from the
\* month of range.startDate to the month of range.endDate.
calculateMonthlyTrends(studs, renewals, range, current) ==
  LET rangeStart == startOfMonth(range.startDate)
      rangeEnd == endOfMonth(range.endDate)
      monthCount == differenceInCalendarMonths(rangeEnd, rangeStart) + 1
  IN [i \in 1 .. monthCount |->
        monthlyMetrics(studs, renewals, addMonths(rangeStart, i - 1), current)]

\* ------------------------------------------------------------- data access
\* The sheets fetchBothSheets asks for, in the order it combines them.
EnrollmentSheets == <<"FormResponses1", "OldFormResponses1", "RazorpayEnrollments">>
RenewalSheets == <<"Renewal", "HistoricalRenewal", "RazorpayRenewals">>
Sheets ==
  {EnrollmentSheets[i] : i \in 1 .. 3} \cup {RenewalSheets[i] : i \in 1 .. 3}

\* What axios.get of a sheet ends with: the request is rejected, or the
\* response holds so many rows (the header row being the first).
Rejected == 0 - 1
Responses == {Rejected} \cup (0 .. MaxRows)

\* fetchSheetData: the number of rows of the array it resolves to; the
\* catch turns a rejected request into the empty array.
fetchSheetData(response) == IF response = Rejected THEN 0 ELSE response

\* tagData: the rows as [header, ...rows tagged with their sheet]; a row is
\* modelled by its tag.
tagData(data, source) ==
  IF data <= 1 THEN <<>> ELSE <<"header">> \o [i \in 1 .. data - 1 |-> source]

\* Array.prototype.slice(1)
slice1(rows) == IF rows = <<>> THEN <<>> ELSE Tail(rows)

\* fetchBothSheets: the combined rows of three sheets
combined(responses, sheets) ==
  tagData(fetchSheetData(responses[sheets[1]]), sheets[1])
    \o slice1(tagData(fetchSheetData(responses[sheets[2]]), sheets[2]))
    \o slice1(tagData(fetchSheetData(responses[sheets[3]]), sheets[3]))

fetchBothSheets(responses) ==
  [enrollmentData |-> combined(responses, EnrollmentSheets),
   renewalData |-> combined(responses, RenewalSheets)]

\* parseStudentData: one student per enrollment row and one renewal record
\* per renewal row from the second row on (the ids of the rows are taken to
\* be distinct), nothing when there is no enrollment row.
parseStudentData(enrollmentData, renewalData) ==
  IF Len(enrollmentData) < 2
  THEN [parsedStudents |-> <<>>, renewalRecords |-> <<>>]
  ELSE [parsedStudents |-> slice1(enrollmentData),
        renewalRecords |-> slice1(renewalData)]

\* getMockData: the demo students
\* --- the loops of parseStudentData over the sheet rows (unnamed/part_006) ---
\* A row is given by the record its columns parse to: an enrollment row by
\* the Student that studentMap.set stores for it, a renewal row by the
\* RenewalRecord that renewalRecords.push stores for it (fees 0 for an empty
\* fee column).  The students are kept in the insertion order of the Map.
indexOfId(studs, id) == {i \in Indices(studs) : studs[i].id = id}

RECURSIVE parseEnrollmentRows(_, _, _)
parseEnrollmentRows(rows, i, studs) ==
  IF i > Len(rows) THEN studs
  ELSE LET row == rows[i]
           found == indexOfId(studs, row.id)
       IN parseEnrollmentRows(rows, i + 1,
            IF found # {}
            THEN [studs EXCEPT ![CHOOSE x \in found : TRUE].activities =
                                  @ \cup row.activities]
            ELSE Append(studs, row))

\* The update of the matched student by a renewal row with a date.
renewalRowInto(student, row) ==
  [student EXCEPT
     !.renewalDates = @ \cup {row.renewalDate},
     !.endDate = IF row.endDate # NoDate /\ (@ = NoDate \/ row.endDate > @)
                 THEN row.endDate ELSE @,
     !.fees = IF row.fees > 0 THEN feesOrZero(@) + row.fees ELSE @]

RECURSIVE parseRenewalRows(_, _, _)
parseRenewalRows(rows, i, studs) ==
  IF i > Len(rows) THEN studs
  ELSE LET row == rows[i]
           found == indexOfId(studs, row.id)
       IN parseRenewalRows(rows, i + 1,
            IF row.renewalDate # NoDate /\ found # {}
            THEN [studs EXCEPT ![CHOOSE x \in found : TRUE] = renewalRowInto(@, row)]
            ELSE studs)

\* parseStudentData on the data rows of enrollmentData and of renewalData
\* (the header rows, at index 0, are left out).
parseStudentDataRows(enrollmentRows, renewalRows) ==
  IF Len(enrollmentRows) + 1 < 2
  THEN [parsedStudents |-> <<>>, renewalRecords |-> <<>>]
  ELSE [parsedStudents |->
          parseRenewalRows(renewalRows, 1, parseEnrollmentRows(enrollmentRows, 1, <<>>)),
        renewalRecords |-> renewalRows]

MockData == <<"mock">>

NoError == "null"

\* The state of the hook useStudentData when mounted; apiKey is
\* import.meta.env.VITE_GOOGLE_SHEETS_API_KEY being set.  pc is where each
\* call of fetchData stands; rejected tells whether a request of the call
\* that settled last was rejected.  latest is the call that started last,
\* shown the call whose setStudents ran last, and returned the number of data
\* rows each enrollment sheet had returned to that call.
useStudentData(apiKey) ==
  [apiKey |-> apiKey,
   students |-> <<>>,
   renewalRecords |-> <<>>,
   loading |-> TRUE,
   error |-> NoError,
   pc |-> [f \in 1 .. MaxFetches |-> "idle"],
   settled |-> FALSE,
   rejected |-> FALSE,
   latest |-> 0,
   shown |-> 0,
   returned |-> [sheet \in {} |-> 0]]

\* ------------------------------------------------------------------ inputs
\* Ids as the parser leaves them (lower case); the first two share a base id.
IdKeyboard == <<"in", "kb", "100", "jdoe">>
IdPiano == <<"in", "pn", "100", "jdoe">>
IdGuitar == <<"in", "gt", "100", "jdoe">>
IdOther == <<"in", "kb", "200", "asmith">>
IdPlain == <<"renewal", "7">>

\* The enrollment ids of the model, in a fixed order.
IdList == <<IdKeyboard, IdPiano, IdGuitar, IdOther>>

\* An expiration date, its grace end, and the days around them.
Expiry == Day(20)
GraceEnd == addDays(Expiry, GraceDays)

Student(id, enrollmentDate, endDate, renewalDates, package, fees, activities) ==
  [id |-> id,
   activities |-> activities,
   activity |-> NoActivity,
   courseCategories |-> {id[2]},
   enrollmentDate |-> enrollmentDate,
   endDate |-> endDate,
   enrolledEndDate |-> endDate,
   renewalDates |-> renewalDates,
   fees |-> fees,
   enrolledFees |-> fees,
   package |-> package,
   source |-> "FormResponses1"]

Renewal(id, renewalDate, endDate, package, fees, activities) ==
  [id |-> id,
   activities |-> activities,
   courseCategories |-> {id[2]},
   renewalDate |-> renewalDate,
   endDate |-> endDate,
   fees |-> fees,
   package |-> package,
   source |-> "Renewal"]

\* Sequences of length n over S, and of length at most n.
SeqsOfLen(S, n) == [1 .. n -> S]
SeqsUpTo(S, n) == UNION {SeqsOfLen(S, k) : k \in 0 .. n}

\* parseStudentData keeps one student per id: the ids of the students array
\* are distinct (here: the first ids of IdList, in order).
IdsInOrder(studs) == \A i \in Indices(studs) : studs[i].id = IdList[i]

\* No record twice in the array.
Distinct(seq) == \A i, j \in Indices(seq) : seq[i] = seq[j] => i = j

NoCall ==
  [op |-> "none", revision |-> "none", students |-> <<>>, renewals |-> <<>>,
   range |-> [startDate |-> 0, endDate |-> 0], now |-> 0, date |-> 0, out |-> 0]

\* --- lifecycle inputs: one expiration date, renewals around its grace end ---
LifecycleStudents ==
  {Student(id, Day(1), Expiry, renewalDates, NoPackage, 100, {"Piano"}) :
     id \in {IdList[i] : i \in 1 .. MaxStudents},
     renewalDates \in {{}, {Expiry}, {GraceEnd}, {addDays(GraceEnd, 1)}}}
  \cup
  {Student(id, Day(1), Expiry, {}, "LTV", 100, {"Piano"}) :
     id \in {IdList[i] : i \in 1 .. MaxStudents}}

\* A renewal of the first student and one of nobody enrolled.
LifecycleRenewals ==
  {Renewal(id, Day(70), Day(130), NoPackage, 50, {"Piano"}) :
     id \in {IdKeyboard, IdPlain}}

\* A range that holds Expiry and one that holds the renewals' end date.
LifecycleRanges ==
  {[startDate |-> Day(0), endDate |-> Day(30)],
   [startDate |-> Day(100), endDate |-> Day(140)]}

\* In grace, at the grace end, and long after it.
LifecycleNows == {addDays(Expiry, 10), GraceEnd, Day(200)}

\* The reference dates getActiveStudentsAtDate is asked about.
RefDates == {Day(10), Expiry, addDays(Expiry, 1), Day(200)}

\* --- merge inputs: records of one base id, packages, fees, renewals with
\* and without a student, with and without a date ---
MergeStudents ==
  {Student(id, Day(1), Expiry, {}, package, fees, {id[2]}) :
     id \in {IdList[i] : i \in 1 .. MaxStudents},
     package \in {NoPackage, "LTV"},
     fees \in {NoFee, 100}}

MergeRenewals ==
  {Renewal(IdPlain, Day(70), Day(130), NoPackage, 50, {"Piano"}),
   Renewal(IdPlain, Day(80), Day(140), "LTV", 70, {""}),
   Renewal(IdPlain, NoDate, NoDate, NoPackage, 50, {"Piano"}),
   Renewal(IdKeyboard, Day(70), Day(130), NoPackage, 50, {"Piano"}),
   Renewal(IdPiano, Day(80), NoDate, "LTV", 70, {"Piano"})}

InitMerge ==
  /\ students \in SeqsUpTo(MergeStudents, MaxStudents)
  /\ IdsInOrder(students)
  /\ renewalStudents \in SeqsUpTo(MergeRenewals, MaxRenewals)
  /\ dateRange = [startDate |-> Day(0), endDate |-> Day(30)]
  /\ now = Day(200)
  /\ last = NoCall
  /\ hook = useStudentData(TRUE)

\* --- count inputs: renewals before the expiration and inside the grace,
\* a range that holds the expiration and one that holds the grace end ---
CountStudents ==
  {Student(id, Day(1), Expiry, renewalDates, NoPackage, 100, {id[2]}) :
     id \in {IdList[i] : i \in 1 .. MaxStudents},
     renewalDates \in {{}, {Day(10)}, {Day(50)}}}

\* The renewal rows of the first student: an early one and one inside the
\* grace whose end date could not be parsed.
CountRenewals ==
  {Renewal(IdKeyboard, Day(10), Day(100), NoPackage, 50, {"kb"}),
   Renewal(IdKeyboard, Day(50), NoDate, NoPackage, 50, {"kb"})}

CountRanges ==
  {[startDate |-> Day(0), endDate |-> Day(30)],
   [startDate |-> Day(30), endDate |-> Day(80)]}

\* Inside the grace, after the renewal of Day(50), and long after it.
CountNows == {Day(60), Day(200)}

InitCounts ==
  /\ students \in SeqsUpTo(CountStudents, MaxStudents)
  /\ IdsInOrder(students)
  /\ renewalStudents \in SeqsUpTo(CountRenewals, MaxRenewals)
  /\ Distinct(renewalStudents)
  /\ dateRange \in CountRanges
  /\ now \in CountNows
  /\ last = NoCall
  /\ hook = useStudentData(TRUE)

\* --- trend inputs: enrollments before and inside a range that starts and
\* ends inside a month, a lifetime student, and a student whose source the
\* renewal loop of the first GoogleSheetsService overwrote ---
TrendStudents ==
  UNION
    {{Student(id, Day(35), Day(50), {}, NoPackage, 100, {id[2]}),
      Student(id, Day(45), Day(75), {}, NoPackage, 100, {id[2]}),
      Student(id, Day(5), Expiry, {}, "LTV", 100, {id[2]}),
      [Student(id, Day(45), Day(75), {Day(76)}, NoPackage, 150, {id[2]})
         EXCEPT !.source = "Renewal"]} :
       id \in {IdList[i] : i \in 1 .. MaxStudents}}

TrendRenewals ==
  {Renewal(IdKeyboard, Day(76), Day(106), NoPackage, 50, {"kb"}),
   Renewal(IdPlain, Day(50), Day(80), NoPackage, 50, {"Piano"})}

\* A range inside months 1 and 2, and the range of the whole months 1 and 2.
TrendRanges ==
  {[startDate |-> Day(40), endDate |-> Day(70)],
   [startDate |-> Day(DaysPerMonth), endDate |-> Day(3 * DaysPerMonth - 1)]}

InitTrends ==
  /\ students \in SeqsUpTo(TrendStudents, MaxStudents)
  /\ IdsInOrder(students)
  /\ renewalStudents \in SeqsUpTo(TrendRenewals, MaxRenewals)
  /\ Distinct(renewalStudents)
  /\ dateRange \in TrendRanges
  /\ now = Day(200)
  /\ last = NoCall
  /\ hook = useStudentData(TRUE)

\* --- sheet rows: a row with and one without fee (a sheet can hold a row
\* twice), renewal rows with and without a student, with and without a date ---
EnrollmentRows ==
  {Student(IdKeyboard, Day(1), Expiry, {}, NoPackage, 100, {"Keyboard"}),
   Student(IdPiano, Day(1), Expiry, {}, NoPackage, NoFee, {"Piano"})}

RenewalRows ==
  {Renewal(IdKeyboard, Day(50), Day(110), NoPackage, 50, {"Keyboard"}),
   Renewal(IdKeyboard, NoDate, NoDate, NoPackage, 30, {"Keyboard"}),
   Renewal(IdPlain, Day(50), Day(110), NoPackage, 0, {"Piano"})}

\* Before the first fetch has been parsed.
InitParse ==
  /\ students = <<>>
  /\ renewalStudents = <<>>
  /\ dateRange = [startDate |-> Day(0), endDate |-> Day(30)]
  /\ now = Day(200)
  /\ last = NoCall
  /\ hook = useStudentData(TRUE)

Init ==
  /\ students \in SeqsUpTo(LifecycleStudents, MaxStudents)
  /\ IdsInOrder(students)
  /\ renewalStudents \in SeqsUpTo(LifecycleRenewals, MaxRenewals)
  /\ Distinct(renewalStudents)
  /\ dateRange \in LifecycleRanges
  /\ now \in LifecycleNows
  /\ last = NoCall
  /\ hook = useStudentData(TRUE)

\* ------------------------------------------------------ data access steps
InitFetch ==
  /\ students = <<>>
  /\ renewalStudents = <<>>
  /\ dateRange = [startDate |-> Day(0), endDate |-> Day(30)]
  /\ now = Day(200)
  /\ last = NoCall
  /\ hook \in {useStudentData(apiKey) : apiKey \in BOOLEAN}

\* fetchData up to its await (the effect on mount, or refetch): without API
\* key it sets the demo students and returns through finally.
FetchData ==
  \E f \in 1 .. MaxFetches :
    /\ hook.pc[f] = "idle"
    /\ hook' = IF hook.apiKey
               THEN [hook EXCEPT !.loading = TRUE, !.error = NoError,
                                 !.pc[f] = "awaiting", !.latest = f]
               ELSE [hook EXCEPT !.loading = FALSE, !.error = NoError,
                                 !.students = MockData,
                                 !.settled = TRUE, !.rejected = FALSE,
                                 !.latest = f, !.shown = f]
    /\ UNCHANGED <<students, renewalStudents, dateRange, now, last>>

\* fetchData after its await: the six requests have ended, each with a
\* response or rejected; fetchBothSheets resolves in either case, so the
\* catch of fetchData is not entered.
FetchResolved ==
  \E f \in 1 .. MaxFetches, responses \in [Sheets -> Responses] :
    LET data == fetchBothSheets(responses)
        parsed == parseStudentData(data.enrollmentData, data.renewalData)
    IN /\ hook.pc[f] = "awaiting"
       /\ hook' = [hook EXCEPT !.students = parsed.parsedStudents,
                               !.renewalRecords = parsed.renewalRecords,
                               !.loading = FALSE,
                               !.pc[f] = "idle",
                               !.settled = TRUE,
                               !.rejected = \E sheet \in Sheets :
                                               responses[sheet] = Rejected,
                               !.shown = f,
                               !.returned =
                                 [sheet \in {EnrollmentSheets[i] : i \in 1 .. 3} |->
                                    IF fetchSheetData(responses[sheet]) > 1
                                    THEN fetchSheetData(responses[sheet]) - 1
                                    ELSE 0]]
       /\ UNCHANGED <<students, renewalStudents, dateRange, now, last>>

NextFetch == FetchData \/ FetchResolved

SpecFetch == InitFetch /\ [][NextFetch]_vars

\* ----------------------------------------------------------------- actions
Call(op, revision, date, out) ==
  [op |-> op, revision |-> revision, students |-> students,
   renewals |-> renewalStudents, range |-> dateRange, now |-> now,
   date |-> date, out |-> out]

\* The dashboard computes the metrics of the current filter.
CalculateUnifiedMetrics ==
  \E revision \in Revisions :
    LET result == calculateUnifiedMetrics(revision, students, renewalStudents,
                                          dateRange, now)
    IN /\ last' = Call("calculateUnifiedMetrics", revision, NoDate, result)
       /\ students' = result.students
       /\ UNCHANGED <<renewalStudents, dateRange, now, hook>>

GetActiveStudentsAtDate ==
  \E revision \in Revisions, date \in RefDates :
    LET result == getActiveStudentsAtDate(revision, students, renewalStudents, date)
    IN /\ last' = Call("getActiveStudentsAtDate", revision, date, result)
       /\ students' = result.students
       /\ UNCHANGED <<renewalStudents, dateRange, now, hook>>

\* getCurrentlyActiveStudents: getActiveStudentsAtDate at new Date()
GetCurrentlyActiveStudents ==
  \E revision \in Revisions :
    LET result == getActiveStudentsAtDate(revision, students, renewalStudents, now)
    IN /\ last' = Call("getCurrentlyActiveStudents", revision, now, result)
       /\ students' = result.students
       /\ UNCHANGED <<renewalStudents, dateRange, now, hook>>

GetChurnedStudents ==
  /\ last' = Call("getChurnedStudents", "none", NoDate,
                  getChurnedStudents(students, dateRange, now))
  /\ UNCHANGED <<students, renewalStudents, dateRange, now, hook>>

MergeStudentRecords ==
  /\ last' = Call("mergeStudentRecords", "none", NoDate,
                  mergeStudentRecords(students))
  /\ UNCHANGED <<students, renewalStudents, dateRange, now, hook>>

\* The drill-down lists the cards of the dashboard open.
GetInGraceStudents ==
  /\ last' = Call("getInGraceStudents", "none", NoDate,
                  getInGraceStudents(students, dateRange, now))
  /\ UNCHANGED <<students, renewalStudents, dateRange, now, hook>>

GetNewEnrollments ==
  /\ last' = Call("getNewEnrollments", "none", NoDate,
                  getNewEnrollments(students, dateRange))
  /\ UNCHANGED <<students, renewalStudents, dateRange, now, hook>>

GetEligibleStudents ==
  /\ last' = Call("getEligibleStudents", "none", NoDate,
                  getEligibleStudents(students, renewalStudents, dateRange))
  /\ UNCHANGED <<students, renewalStudents, dateRange, now, hook>>

GetRenewedStudents ==
  /\ last' = Call("getRenewedStudents", "none", NoDate,
                  getRenewedStudents(renewalStudents, dateRange))
  /\ UNCHANGED <<students, renewalStudents, dateRange, now, hook>>

\* The dashboard computes the monthly series of the current filter.
CalculateMonthlyTrends ==
  /\ last' = Call("calculateMonthlyTrends", "none", NoDate,
                  calculateMonthlyTrends(students, renewalStudents, dateRange, now))
  /\ UNCHANGED <<students, renewalStudents, dateRange, now, hook>>

Next ==
  \/ CalculateUnifiedMetrics
  \/ GetActiveStudentsAtDate
  \/ GetCurrentlyActiveStudents
  \/ GetChurnedStudents
  \/ MergeStudentRecords
  \/ GetInGraceStudents
  \/ GetNewEnrollments
  \/ GetEligibleStudents
  \/ GetRenewedStudents
  \/ CalculateMonthlyTrends

Spec == Init /\ [][Next]_vars

SpecTrends == InitTrends /\ [][Next]_vars

\* The rows of a fetch are parsed and become the arrays of the dashboard.
ParseStudentData ==
  \E enrollmentRows \in SeqsUpTo(EnrollmentRows, MaxRows),
     renewalRows \in SeqsUpTo(RenewalRows, MaxRows) :
    LET parsed == parseStudentDataRows(enrollmentRows, renewalRows)
    IN /\ last' = Call("parseStudentData", "none", NoDate,
                       [enrollmentData |-> enrollmentRows,
                        renewalData |-> renewalRows,
                        parsedStudents |-> parsed.parsedStudents,
                        renewalRecords |-> parsed.renewalRecords])
       /\ students' = parsed.parsedStudents
       /\ renewalStudents' = parsed.renewalRecords
       /\ UNCHANGED <<dateRange, now, hook>>

NextParse == ParseStudentData \/ Next

SpecParse == InitParse /\ [][NextParse]_vars

SpecMerge == InitMerge /\ [][Next]_vars

SpecCounts == InitCounts /\ [][Next]_vars

\* ------------------------------------------------------------------ claims
MapCalls == {"getActiveStudentsAtDate", "getCurrentlyActiveStudents"}

\* C1 (as claimed): a call of calculateUnifiedMetrics that follows a call of
\* it with the same students array, renewals, date range and current time
\* (and revision of the code) returns the same UnifiedMetrics.
C1_Idempotence ==
  [][(/\ last.op = "calculateUnifiedMetrics"
      /\ last'.op = "calculateUnifiedMetrics"
      /\ last'.revision = last.revision
      /\ last'.renewals = last.renewals
      /\ last'.range = last.range
      /\ last'.now = last.now)
     => last'.out.metrics = last.out.metrics]_vars

\* C2 (as claimed): after a call of calculateUnifiedMetrics,
\* getActiveStudentsAtDate or getCurrentlyActiveStudents every Student of the
\* input array has the endDate, enrollmentDate, package, renewalDates and
\* fees it had before the call.
C2_InputsImmutable ==
  last.op \in MapCalls \cup {"calculateUnifiedMetrics"} =>
    /\ Len(students) = Len(last.students)
    /\ \A i \in Indices(students) :
         /\ students[i].endDate = last.students[i].endDate
         /\ students[i].enrollmentDate = last.students[i].enrollmentDate
         /\ students[i].package = last.students[i].package
         /\ students[i].renewalDates = last.students[i].renewalDates
         /\ students[i].fees = last.students[i].fees

\* The calls that run the churn filter, and the indices they returned.
ChurnCalls == {"calculateUnifiedMetrics", "getChurnedStudents"}

churnedOf(call) ==
  IF call.op = "calculateUnifiedMetrics" THEN call.out.churned ELSE call.out

\* The students of the last call that expire in its date range, the current
\* time being after their grace end.
expiredInRange(student, call) ==
  /\ student.endDate # NoDate
  /\ student.endDate >= startOfDay(call.range.startDate)
  /\ student.endDate <= endOfDay(call.range.endDate)
  /\ isAfter(call.now, addDays(student.endDate, GraceDays))

\* C3: a student whose renewalDates hold the timestamp endDate + 45 days is
\* in the churned list of no call, whatever the current time and the range.
C3_GraceBoundaryInclusive ==
  last.op \in ChurnCalls =>
    \A i \in Indices(last.students) :
       (/\ last.students[i].endDate # NoDate
        /\ addDays(last.students[i].endDate, GraceDays)
             \in last.students[i].renewalDates)
       => i \notin churnedOf(last)

\* The case of C3: a renewal exactly at the grace end, the expiration in the
\* range and the grace over, the student not churned.
C3_Witness ==
  /\ last.op = "calculateUnifiedMetrics"
  /\ \E i \in Indices(last.students) :
       /\ last.students[i].renewalDates
            = {addDays(last.students[i].endDate, GraceDays)}
       /\ expiredInRange(last.students[i], last)
       /\ i \notin last.out.churned

\* C4 (as claimed): a student whose latest renewal is at endDate + 46 days,
\* every other renewal being on or before endDate, is churned when the
\* current time is after endDate + 45 days and the range holds endDate.
C4_LateRenewalChurned ==
  last.op \in ChurnCalls =>
    \A i \in Indices(last.students) :
       (/\ expiredInRange(last.students[i], last)
        /\ addDays(last.students[i].endDate, GraceDays + 1)
             \in last.students[i].renewalDates
        /\ \A renewalDate \in last.students[i].renewalDates :
             \/ renewalDate = addDays(last.students[i].endDate, GraceDays + 1)
             \/ renewalDate <= last.students[i].endDate)
       => i \in churnedOf(last)

\* C5: a student all of whose renewal dates are on or before endDate is
\* classified as one without renewal dates: churned as soon as the current
\* time is after endDate + 45 days, the range holding endDate.
C5_EarlyRenewalsIgnored ==
  last.op \in ChurnCalls =>
    \A i \in Indices(last.students) :
       (/\ last.students[i].endDate # NoDate
        /\ \A renewalDate \in last.students[i].renewalDates :
             renewalDate <= last.students[i].endDate)
       => /\ expiredInRange(last.students[i], last) => i \in churnedOf(last)
          /\ (i \in churnedOf(last))
               = isChurned([last.students[i] EXCEPT !.renewalDates = {}],
                           startOfDay(last.range.startDate),
                           endOfDay(last.range.endDate), last.now)

\* The case of C5: a renewal on the end date, the student churned.
C5_Witness ==
  /\ last.op \in ChurnCalls
  /\ \E i \in Indices(last.students) :
       /\ last.students[i].renewalDates = {last.students[i].endDate}
       /\ expiredInRange(last.students[i], last)
       /\ i \in churnedOf(last)

\* C7 (as claimed): a student whose package contains 'LTV' is in none of the
\* churned, in-grace and eligible lists of calculateUnifiedMetrics.
C7_LifetimeNeverCounted ==
  last.op = "calculateUnifiedMetrics" =>
    \A i \in Indices(last.students) :
       includesLTV(last.students[i].package)
       => /\ i \notin last.out.churned
          /\ i \notin last.out.inGrace
          /\ i \notin last.out.eligible

Zero == [nan |-> FALSE, tenths |-> 0]

percentagesOf(metrics) ==
  {metrics.renewalPercentage, metrics.churnPercentage,
   metrics.retentionPercentage, metrics.netGrowthPercentage}

\* C10 (as claimed): with both inputs empty, with no eligible student or
\* with no student active at the start of the range, each of the four
\* percentages is 0.
C10_ZeroDefaults ==
  (/\ last.op = "calculateUnifiedMetrics"
   /\ \/ last.students = <<>> /\ last.renewals = <<>>
      \/ last.out.metrics.eligibleStudents = 0
      \/ last.out.startOfPeriodCount = 0)
  => percentagesOf(last.out.metrics) = {Zero}

\* C10 (amended): no percentage is NaN or infinite; renewalPercentage is 0
\* when there is no eligible student; with no student active at the start of
\* the range churnPercentage and netGrowthPercentage are 0 and
\* retentionPercentage is 100.
C10_NoNaN ==
  last.op = "calculateUnifiedMetrics" =>
    /\ \A p \in percentagesOf(last.out.metrics) : ~p.nan
    /\ last.out.metrics.eligibleStudents = 0
         => last.out.metrics.renewalPercentage = Zero
    /\ last.out.startOfPeriodCount = 0
         => /\ last.out.metrics.churnPercentage = Zero
            /\ last.out.metrics.netGrowthPercentage = Zero
            /\ last.out.metrics.retentionPercentage
                 = [nan |-> FALSE, tenths |-> 1000]

\* The case of C10: students and renewals given, none eligible and none
\* active at the start of the range.
C10_Witness ==
  /\ last.op = "calculateUnifiedMetrics"
  /\ last.students # <<>>
  /\ last.out.metrics.eligibleStudents = 0
  /\ last.out.startOfPeriodCount = 0
  /\ last.out.metrics.newEnrollments = 0
  /\ last.out.metrics.retentionPercentage.tenths = 1000

\* The key buildStudentMap files a record under: its id, or its base id in
\* the base-id revision.
keyOf(revision, id) == IF revision = "part_012" THEN getBaseId(id) ELSE id

\* The orders a list of records can be given in.
PermsOf(seq) ==
  {[i \in Indices(seq) |-> seq[p[i]]] : p \in Permutations(Indices(seq))}

Records(seq) == {seq[i] : i \in Indices(seq)}

mergedFields(student) ==
  [activities |-> student.activities,
   renewalDates |-> student.renewalDates,
   fees |-> student.fees]

sameMerge(m1, m2) ==
  /\ DOMAIN m1 = DOMAIN m2
  /\ \A k \in DOMAIN m1 : mergedFields(m1[k]) = mergedFields(m2[k])

\* C8 (as claimed): mergeStudentRecords and buildStudentMap give every key
\* the same set of activities, the same set of renewal dates and the same
\* summed fees for every order of the records.
C8_MergeOrderIndependent ==
  /\ last.op = "mergeStudentRecords" =>
       \A studs \in PermsOf(last.students) :
          sameMerge(mergeStudentRecords(studs), last.out)
  /\ last.op \in MapCalls =>
       \A studs \in PermsOf(last.students), renewals \in PermsOf(last.renewals) :
          sameMerge(buildStudentMapOf(last.revision, studs, renewals).map,
                    last.out.map)

\* The renewals of the last call filed under a key, and whether an
\* enrollment record is.
renewalsOfKey(call, key) ==
  {j \in Indices(call.renewals) : keyOf(call.revision, call.renewals[j].id) = key}

enrolledKey(call, key) ==
  \E i \in Indices(call.students) : keyOf(call.revision, call.students[i].id) = key

\* C9 (as claimed): the map holds a student under the key of every renewal
\* record; with no enrollment record of that key the student has the
\* renewal's date as enrollmentDate and as only renewal date, and the
\* renewal's endDate and package.
C9_RenewalsNeverDropped ==
  last.op \in MapCalls =>
    \A j \in Indices(last.renewals) :
       LET renewal == last.renewals[j]
           key == keyOf(last.revision, renewal.id)
       IN /\ key \in DOMAIN last.out.map
          /\ ~enrolledKey(last, key)
             => /\ last.out.map[key].enrollmentDate = renewal.renewalDate
                /\ last.out.map[key].renewalDates = {renewal.renewalDate}
                /\ last.out.map[key].endDate = renewal.endDate
                /\ last.out.map[key].package = renewal.package

\* C9 (amended): the map holds a student under the key of every renewal
\* record; with no enrollment record of that key its renewalDates are the
\* dates of the dated renewals of the key, and when the renewal is the only
\* one of its key the student has the renewal's endDate and package and its
\* date as enrollmentDate, the epoch when the renewal has no date.
C9_RenewalsKept ==
  last.op \in MapCalls =>
    \A j \in Indices(last.renewals) :
       LET renewal == last.renewals[j]
           key == keyOf(last.revision, renewal.id)
       IN /\ key \in DOMAIN last.out.map
          /\ ~enrolledKey(last, key)
             => /\ last.out.map[key].renewalDates
                     = {last.renewals[x].renewalDate :
                          x \in renewalsOfKey(last, key)} \ {NoDate}
                /\ renewalsOfKey(last, key) = {j}
                   => /\ last.out.map[key].enrollmentDate
                           = IF renewal.renewalDate # NoDate
                             THEN renewal.renewalDate ELSE 0
                      /\ last.out.map[key].endDate = renewal.endDate
                      /\ last.out.map[key].package = renewal.package

\* The case of C9: students given, a dated renewal of nobody enrolled, the
\* only one of its key, found in the map with its date.
C9_Witness ==
  /\ last.op \in MapCalls
  /\ last.students # <<>>
  /\ \E j \in Indices(last.renewals) :
       LET key == keyOf(last.revision, last.renewals[j].id) IN
       /\ ~enrolledKey(last, key)
       /\ renewalsOfKey(last, key) = {j}
       /\ last.renewals[j].renewalDate # NoDate
       /\ key \in DOMAIN last.out.map
       /\ last.out.map[key].renewalDates = {last.renewals[j].renewalDate}

\* The enrollment records of a call inside its date range, and their base ids.
enrolledInRange(call) ==
  {i \in Indices(call.students) :
     isNewEnrollment(call.students[i], startOfDay(call.range.startDate),
                     endOfDay(call.range.endDate))}

activitiesOfBaseId(call, baseId) ==
  UNION {nonEmpty(call.students[i].activities) \cup activityField(call.students[i]) :
           i \in {x \in enrolledInRange(call) :
                    getBaseId(call.students[x].id) = baseId}}

\* C11 (as claimed): two enrollment records of one base id (in-kb-100-jdoe,
\* in-pn-100-jdoe), enrolled inside the range, are merged into one student
\* with both course categories, and calculateUnifiedMetrics counts one
\* multi-activity student per base id with more than one activity.
C11_MultiActivityByBaseId ==
  /\ last.op = "mergeStudentRecords" =>
       /\ DOMAIN last.out = {getBaseId(record.id) : record \in Records(last.students)}
       /\ \A record \in Records(last.students) :
            record.courseCategories
              \subseteq last.out[getBaseId(record.id)].courseCategories
  /\ last.op = "calculateUnifiedMetrics" =>
       last.out.metrics.multiActivityStudents
         = Cardinality({baseId \in {getBaseId(last.students[i].id) :
                                      i \in enrolledInRange(last)} :
                          Cardinality(activitiesOfBaseId(last, baseId)) > 1})

\* C12 (as claimed): getActiveStudentsAtDate returns every student of the
\* map that has no endDate, lifetime package or not, at every date.
C12_NoEndDateActive ==
  last.op \in MapCalls =>
    \A key \in DOMAIN last.out.map :
       last.out.map[key].endDate = NoDate => key \in last.out.active

renewalsInRange(call) ==
  {j \in Indices(call.renewals) :
     /\ call.renewals[j].renewalDate # NoDate
     /\ inRange(call.renewals[j].renewalDate,
                startOfDay(call.range.startDate), endOfDay(call.range.endDate))
     /\ call.renewals[j].source \in RenewalSources}

\* A renewal record dated after the expiration of the student of its id.
afterExpiration(call, j) ==
  \A i \in Indices(call.students) :
     (call.students[i].id = call.renewals[j].id /\ call.students[i].endDate # NoDate)
     => isAfter(call.renewals[j].renewalDate, call.students[i].endDate)

\* C14 (as claimed): renewedStudents counts the renewal records dated inside
\* the range and strictly after the expiration of their student, no other.
C14_RenewedValidOnly ==
  last.op = "calculateUnifiedMetrics" =>
    last.out.metrics.renewedStudents
      = Cardinality({j \in renewalsInRange(last) : afterExpiration(last, j)})

\* C14 (amended): renewedStudents counts every renewal record of a renewal
\* sheet dated inside the range, after the expiration of its student or not.
C14_RenewedAll ==
  last.op = "calculateUnifiedMetrics" =>
    last.out.metrics.renewedStudents = Cardinality(renewalsInRange(last))

\* The case of C14: a renewal inside the range, on or before the expiration
\* of its student, counted.
C14_Witness ==
  /\ last.op = "calculateUnifiedMetrics"
  /\ \E j \in renewalsInRange(last) : ~afterExpiration(last, j)
  /\ last.out.metrics.renewedStudents = Cardinality(renewalsInRange(last))
  /\ last.out.metrics.renewedStudents > 0

\* C15 (as claimed): lifetimeValue is the sum of the fees of the students
\* with the enrollment date or a renewal date inside the range.
C15_LifetimeValueEvents ==
  last.op = "calculateUnifiedMetrics" =>
    last.out.metrics.lifetimeValue
      = SumFees(last.students,
          {i \in Indices(last.students) :
             LET startDate == startOfDay(last.range.startDate)
                 endDate == endOfDay(last.range.endDate)
             IN \/ inRange(last.students[i].enrollmentDate, startDate, endDate)
                \/ \E renewalDate \in last.students[i].renewalDates :
                      inRange(renewalDate, startDate, endDate)})

\* C20 (as claimed, at the dates between the renewal and the grace end): a
\* student without lifetime package with a renewal after endDate and no
\* later than endDate + 45 days is active at the dates after the renewal.
C20_RenewalReactivates ==
  last.op \in MapCalls =>
    \A i \in Indices(last.students) :
       LET student == last.students[i] IN
       (/\ ~includesLTV(student.package)
        /\ student.endDate # NoDate
        /\ \E renewalDate \in student.renewalDates :
              /\ isAfter(renewalDate, student.endDate)
              /\ renewalDate <= addDays(student.endDate, GraceDays)
              /\ isAfter(last.date, renewalDate)
        /\ isBefore(last.date, addDays(student.endDate, GraceDays)))
       => keyOf(last.revision, student.id) \in last.out.active

\* The length of the list a drill-down call returned, and the count of the
\* metrics that the list opens.
DrillDowns ==
  {"getChurnedStudents", "getInGraceStudents", "getNewEnrollments",
   "getEligibleStudents", "getRenewedStudents"}

lengthOf(call) ==
  IF call.op = "getEligibleStudents"
  THEN Cardinality(call.out.enrollments) + Cardinality(call.out.renewals)
  ELSE Cardinality(call.out)

countOf(metrics, op) ==
  CASE op = "getChurnedStudents" -> metrics.churnedStudents
    [] op = "getInGraceStudents" -> metrics.inGraceStudents
    [] op = "getNewEnrollments" -> metrics.newEnrollments
    [] op = "getEligibleStudents" -> metrics.eligibleStudents
    [] op = "getRenewedStudents" -> metrics.renewedStudents

\* C16 (as claimed): a drill-down list taken after calculateUnifiedMetrics
\* from the same students, renewals and range, at the same current time, has
\* the length of the count the metrics reported.
C16_DrillDownMatchesCount ==
  [][(/\ last.op = "calculateUnifiedMetrics"
      /\ last'.op \in DrillDowns
      /\ last'.renewals = last.renewals
      /\ last'.range = last.range
      /\ last'.now = last.now)
     => lengthOf(last') = countOf(last.out.metrics, last'.op)]_vars

\* C17 (as claimed): with an API key, a fetch of which a sheet request was
\* rejected ends with error set and the demo students in place.
C17_FallbackToDemoData ==
  (hook.apiKey /\ hook.settled /\ hook.rejected)
  => (hook.error # NoError /\ hook.students = MockData)

\* The students of the map of a call that C18 and C19 are about: an endDate,
\* no lifetime package, no valid renewal.
expiring(call) ==
  {key \in DOMAIN call.out.map :
     /\ call.out.map[key].endDate # NoDate
     /\ ~includesLTV(call.out.map[key].package)
     /\ ~hasValidRenewal(call.out.map[key])}

\* C18 (as claimed): such a student is active at every date before
\* endDate + 45 days, at no date from endDate + 45 days on, and once not
\* active is not active at any later date.
C18_StatusProgression ==
  last.op \in MapCalls =>
    \A key \in expiring(last) :
       /\ (key \in last.out.active)
            = isBefore(last.date, addDays(last.out.map[key].endDate, GraceDays))
       /\ key \notin last.out.active
          => \A date \in RefDates :
                isAfter(date, last.date) => ~isActiveAt(last.out.map[key], date)

\* C19 (as claimed): such a student is active at every date from endDate,
\* endDate itself included, to before endDate + 45 days.
C19_GraceLowerBoundInclusive ==
  last.op \in MapCalls =>
    \A key \in expiring(last) :
       (/\ last.date >= last.out.map[key].endDate
        /\ isBefore(last.date, addDays(last.out.map[key].endDate, GraceDays)))
       => key \in last.out.active

\* C21: after mergeStudentRecords, and after the enrollment loop of the
\* base-id buildStudentMap, the student of a base id has the earliest
\* enrollmentDate and the latest endDate of the enrollment records of that
\* base id, in whatever order the records are given.
C21_EarliestEnrollmentLatestEnd ==
  last.op = "mergeStudentRecords" =>
    \A perm \in PermsOf(last.students) :
      LET merged == mergeStudentRecords(perm)
          based == mergeEnrollments(perm, 1, EmptyMap)
      IN \A baseId \in DOMAIN merged :
           LET records == {r \in Records(perm) : getBaseId(r.id) = baseId}
               earliest == CHOOSE d \in {r.enrollmentDate : r \in records} :
                             \A r \in records : d <= r.enrollmentDate
               latest == SetMax({r.endDate : r \in records})
           IN /\ merged[baseId].enrollmentDate = earliest
              /\ merged[baseId].endDate = latest
              /\ based[baseId].enrollmentDate = earliest
              /\ based[baseId].endDate = latest

\* C22: the students calculateUnifiedMetrics counts as in grace are those
\* whose endDate is inside the range, for whom the current time is after
\* endDate and before endDate + 45 days, and who have no valid renewal (no
\* renewal dated after endDate): the in-grace test of getActiveStudentsAtDate
\* at the current time.
C22_InGraceWithoutValidRenewal ==
  last.op = "calculateUnifiedMetrics" =>
    last.out.inGrace =
      {i \in Indices(last.students) :
         LET student == last.students[i]
         IN /\ student.endDate # NoDate
            /\ inRange(student.endDate, startOfDay(last.range.startDate),
                       endOfDay(last.range.endDate))
            /\ isAfter(last.now, student.endDate)
            /\ isBefore(last.now, addDays(student.endDate, GraceDays))
            /\ ~hasValidRenewal(student)}

\* C23: every bucket of calculateMonthlyTrends counts the enrollments, the
\* renewals and the churn events of its month that are dated inside the date
\* range (from the start of its first day to the end of its last day): the
\* first and the last bucket are clipped to the range.
C23_PartialMonthsClipped ==
  last.op = "calculateMonthlyTrends" =>
    \A k \in Indices(last.out) :
      LET bucket == last.out[k]
          startDate == startOfDay(last.range.startDate)
          endDate == endOfDay(last.range.endDate)
          from == IF bucket.date > startDate THEN bucket.date ELSE startDate
          to == IF endOfMonth(bucket.date) < endDate
                THEN endOfMonth(bucket.date) ELSE endDate
      IN /\ bucket.newEnrollments =
              Cardinality({i \in Indices(last.students) :
                             inRange(last.students[i].enrollmentDate, from, to)})
         /\ bucket.renewals =
              Cardinality({j \in Indices(last.renewals) :
                             isRenewalInRange(last.renewals[j], from, to)})
         /\ bucket.dropped =
              Cardinality({i \in Indices(last.students) :
                             isChurned(last.students[i], from, to, last.now)})

\* C24: in every bucket of calculateMonthlyTrends, startOfMonth is the number
\* of students getActiveStudentsAtDate (of one of the revisions of the
\* merger) reports active at the end of the previous month.
C24_StartOfMonthByClassifier ==
  last.op = "calculateMonthlyTrends" =>
    \E revision \in Revisions :
      \A k \in Indices(last.out) :
        last.out[k].startOfMonth =
          Cardinality(getActiveStudentsAtDate(
                        revision, last.students, last.renewals,
                        endOfMonth(subMonths(last.out[k].date, 1))).active)

\* C29: for a date range of whole calendar months, the newEnrollments, the
\* renewals and the dropped of the buckets of calculateMonthlyTrends add up
\* to newEnrollments, renewedStudents and churnedStudents of
\* calculateUnifiedMetrics for the same students, renewals, range and
\* current time.
C29_SeriesAddsUpToSnapshot ==
  (/\ last.op = "calculateMonthlyTrends"
   /\ startOfDay(last.range.startDate) = startOfMonth(last.range.startDate)
   /\ endOfDay(last.range.endDate) = endOfMonth(last.range.endDate)) =>
    LET RECURSIVE sum(_, _)
        sum(f, k) == IF k = 0 THEN 0 ELSE f[k] + sum(f, k - 1)
        series == last.out
        total(f) == sum(f, Len(series))
    IN \A revision \in Revisions :
         LET metrics == calculateUnifiedMetrics(revision, last.students, last.renewals,
                                                last.range, last.now).metrics
         IN /\ total([k \in Indices(series) |-> series[k].newEnrollments])
                 = metrics.newEnrollments
            /\ total([k \in Indices(series) |-> series[k].renewals])
                 = metrics.renewedStudents
            /\ total([k \in Indices(series) |-> series[k].dropped])
                 = metrics.churnedStudents

\* C27: getActiveStudentsAtDate(students, renewals, D) returns no student
\* whose enrollmentDate in the merged map (the renewal date, for a student
\* known only from a renewal) is after D; and no student that
\* calculateUnifiedMetrics counts as a new enrollment dated after the start
\* of the range is among the students active at the start of the range.
C27_ActiveAtDateRetroactive ==
  /\ last.op \in MapCalls =>
       \A k \in last.out.active : last.out.map[k].enrollmentDate <= last.date
  /\ last.op = "calculateUnifiedMetrics" =>
       LET startDate == startOfDay(last.range.startDate)
           endDate == endOfDay(last.range.endDate)
           atStart == getActiveStudentsAtDate(last.revision, last.students,
                                              last.renewals, startDate)
       IN \A i \in Indices(last.students) :
            (/\ isNewEnrollment(last.students[i], startDate, endDate)
             /\ isAfter(last.students[i].enrollmentDate, startDate))
            => keyOf(last.revision, last.students[i].id) \notin atStart.active

\* C28: no person (base id) that getChurnedStudents returns for one of the
\* date ranges of the dashboard is among the students that
\* getCurrentlyActiveStudents returns for the same students, renewals and
\* current time.
C28_ChurnedNotActive ==
  last.op = "getCurrentlyActiveStudents" =>
    \A range \in LifecycleRanges :
      \A i \in getChurnedStudents(last.students, range, last.now) :
        \A k \in last.out.active :
          getBaseId(k) # getBaseId(last.students[i].id)

\* C25: after parseStudentData and the base-id buildStudentMap, the fees of
\* every unified student are the fees of all the enrollment rows and of all
\* the renewal rows of its base id, each row counted once.
C25_FeeConservation ==
  last.op = "parseStudentData" =>
    LET RECURSIVE feesOfRows(_, _, _)
        feesOfRows(rows, k, baseId) ==
          IF k = 0 THEN 0
          ELSE feesOfRows(rows, k - 1, baseId)
               + (IF getBaseId(rows[k].id) = baseId
                  THEN feesOrZero(rows[k].fees) ELSE 0)
        unified == buildStudentMapBase(last.out.parsedStudents,
                                       last.out.renewalRecords).map
    IN \A baseId \in DOMAIN unified :
         feesOrZero(unified[baseId].fees) =
           feesOfRows(last.out.enrollmentData, Len(last.out.enrollmentData), baseId)
           + feesOfRows(last.out.renewalData, Len(last.out.renewalData), baseId)

\* C26: every data row of every enrollment sheet that returned rows to
\* fetchBothSheets is parsed: the students hold one record per data row of
\* each sheet, whichever of the other sheets are empty or failed to load.
C26_NoRowLost ==
  (hook.apiKey /\ hook.shown # 0) =>
    \A s \in 1 .. 3 :
      Cardinality({i \in Indices(hook.students) :
                     hook.students[i] = EnrollmentSheets[s]})
        = hook.returned[EnrollmentSheets[s]]

\* C30: loading is true as long as a call of fetchData awaits the sheets,
\* and once no call awaits them the students and renewalRecords of the hook
\* are those set by the call that started last.
C30_LatestFetchWins ==
  /\ (\E f \in 1 .. MaxFetches : hook.pc[f] = "awaiting") => hook.loading
  /\ (/\ hook.apiKey
      /\ hook.settled
      /\ \A f \in 1 .. MaxFetches : hook.pc[f] = "idle")
     => hook.shown = hook.latest

====
